---- MODULE Spec2Model ----
(***************************************************************************)
(* designate mdns RequestHandler (designate/mdns/handler.py).              *)
(*                                                                         *)
(* The handler is a callable: one decoded DNS request in, one response     *)
(* out.  It reads zones ("domains") and record-sets from storage, may ask  *)
(* the sender of a NOTIFY for its SOA serial, and may add a domain_sync    *)
(* thread to the thread group.  The model keeps the storage contents, the  *)
(* configuration flag, the thread group, the request being handled, the    *)
(* response (or the exception that left __call__) and the collaborator     *)
(* calls the handler made for that request.                                *)
(***************************************************************************)
EXTENDS Integers, Sequences, FiniteSets, TLC

\* ---------------------------------------------------------------- bounds
MaxQuestions == 2     \* longest question section of a request
MaxRecords == 2       \* most records in one record-set
MaxTasks == 2         \* most domain_sync threads pending in the thread group
MaxSerial == 2        \* largest SOA serial the notifying master answers

\* ------------------------------------------------------------- universes
default_pool_id == "p1"
Names == {"a.", "b.", "c."}
Addrs == {"m1", "x1"}
OtherOpcodes == {"STATUS", "IQUERY", "UPDATE"}
Rcodes == {"NOERROR", "FORMERR", "NOTAUTH", "REFUSED"}
Actions == {"NONE", "DELETE"}

\* A python None for an optional value is the empty tuple, a value v is <<v>>.
None == <<>>
Some(v) == <<v>>

\* request.environ.get('tsigkey') is None
NoKey == [scope |-> "None", resource_id |-> "None"]
TsigKeys ==
    {NoKey}
    \cup [scope : {"POOL"}, resource_id : {"p1", "p2"}]
    \cup [scope : {"ZONE"}, resource_id : {"z1", "z2"}]
    \cup [scope : {"USER"}, resource_id : {"p1"}]

\* Questions of class IN for every name, and two of class CH.
Questions ==
    [name : Names, rdclass : {"IN"}, rdtype : {"A", "MX", "AXFR", "IXFR"}]
    \cup [name : {"a."}, rdclass : {"CH"}, rdtype : {"A", "AXFR"}]

\* A question section that is longer than one question repeats this one.
ExtraQuestion == [name |-> "b.", rdclass |-> "IN", rdtype |-> "A"]

RECURSIVE Pad(_, _)
Pad(qs, n) == IF Len(qs) >= n THEN qs ELSE Pad(Append(qs, ExtraQuestion), n)

QuestionLists ==
    {<<>>}
    \cup {<<q>> : q \in Questions}
    \cup {Pad(<<q>>, n) : q \in {x \in Questions : x.name = "b."},
                          n \in 2..MaxQuestions}

Requests ==
    [opcode : {"QUERY"}, question : QuestionLists, tsigkey : TsigKeys,
     addr : {"x1"}]
    \cup [opcode : {"NOTIFY"}, question : QuestionLists, tsigkey : {NoKey},
          addr : Addrs]
    \cup [opcode : OtherOpcodes,
          question : {qs \in QuestionLists :
                         \A i \in 1..Len(qs) : qs[i].name = "b." /\ qs[i].rdtype \in {"A", "AXFR"}},
          tsigkey : {NoKey}, addr : {"x1"}]

\* No request is being handled.
NoRequest == [opcode |-> "None", question |-> <<>>, tsigkey |-> NoKey, addr |-> "None"]

\* What resolver.query(domain.name, 'SOA') gives: a serial, or None when it
\* raises (timeout, no answer, no nameservers).
SoaAnswers == {None} \cup {Some(s) : s \in 1..MaxSerial}

\* ---------------------------------------------------------------- storage
RecordData(i) == "r" \o ToString(i)

RecordLists ==
    UNION {{[i \in 1..n |-> [data |-> RecordData(i), action |-> a[i]]] :
               a \in [1..n -> Actions]} : n \in 0..MaxRecords}

LiveRecord == <<[data |-> RecordData(1), action |-> "NONE"]>>
DeletedRecord == <<[data |-> RecordData(1), action |-> "DELETE"]>>

Recordset(domain_id, name, type, ttl, records) ==
    [domain_id |-> domain_id, name |-> name, type |-> type, ttl |-> ttl,
     records |-> records]

\* The storages the handler is run against.  Zone z1 ("a.") is a PRIMARY
\* zone of the default pool: an A record-set (absent, or with ttl 0 or
\* 300), its SOA record-set (live, or with its record marked DELETE) and an
\* MX record-set (absent, or any list of records).  Zone z2 ("b.") is a
\* SECONDARY zone of pool p2 with masters m1 and m2, soft-deleted or not,
\* and either already transferred (SOA and A record-sets, ttl null) or not
\* yet (no record-sets at all).
Zone1 ==
    [id |-> "z1", pool_id |-> "p1", name |-> "a.", type |-> "PRIMARY",
     deleted |-> FALSE, serial |-> 1, ttl |-> 3600, masters |-> <<>>]

Zone2(deleted) ==
    [id |-> "z2", pool_id |-> "p2", name |-> "b.", type |-> "SECONDARY",
     deleted |-> deleted, serial |-> 1, ttl |-> 7200, masters |-> <<"m1", "m2">>]

Zone1A == {<<>>} \cup {<<Recordset("z1", "a.", "A", ttl, LiveRecord)>> :
                          ttl \in {Some(0), Some(300)}}
Zone1SOA == {<<Recordset("z1", "a.", "SOA", None, recs)>> :
                recs \in {LiveRecord, DeletedRecord}}
Zone1MX == {<<>>} \cup {<<Recordset("z1", "a.", "MX", None, recs)>> :
                           recs \in RecordLists}
Zone2Recordsets ==
    {<<>>,
     <<Recordset("z2", "b.", "SOA", None, LiveRecord),
       Recordset("z2", "b.", "A", None, LiveRecord)>>}

VARIABLES
    domains,               \* storage: zone id -> zone row
    recordsets,            \* storage: the record-set rows, in storage order
    query_enforce_tsig,    \* CONF['service:mdns'].query_enforce_tsig
    tg,                    \* the thread group: pending domain_sync threads
    request,               \* the request __call__ was called with
    response,              \* the response __call__ returned
    raised,                \* the exception that left __call__, or "none"
    calls,                 \* collaborator calls made for this request
    prev                   \* history: a QUERY handled earlier and what it gave

vars == <<domains, recordsets, query_enforce_tsig, tg, request, response, raised, calls,
          prev>>

ZoneIds == {"z1", "z2"}

\* ----------------------------------------------------- storage collaborator
\* A criterion is a mapping; a row matches it when it agrees on every key.
\* Soft-deleted zones are never returned.
Matches(row, criterion) == \A k \in DOMAIN criterion : row[k] = criterion[k]

\* storage.find_domain: the zone, or None for DomainNotFound.
FindDomain(criterion) ==
    LET found == {z \in ZoneIds : ~domains[z].deleted /\ Matches(domains[z], criterion)}
    IN  IF Cardinality(found) = 1
        THEN Some(domains[CHOOSE z \in found : TRUE])
        ELSE None

\* storage.find_recordset with {'name', 'type', 'domains_deleted': False}:
\* the record-set, or None for RecordSetNotFound.
FindRecordset(criterion) ==
    LET found == {i \in 1..Len(recordsets) :
                     /\ recordsets[i].name = criterion.name
                     /\ recordsets[i].type = criterion.type
                     /\ domains[recordsets[i].domain_id].deleted = criterion.domains_deleted}
    IN  IF Cardinality(found) = 1
        THEN Some(recordsets[CHOOSE i \in found : TRUE])
        ELSE None

\* storage.find_recordsets with {'domain_id', 'type'}; type '!SOA' negates.
FindRecordsets(criterion) ==
    SelectSeq(recordsets,
              LAMBDA rs : /\ rs.domain_id = criterion.domain_id
                          /\ IF criterion.type = "!SOA"
                             THEN rs.type # "SOA"
                             ELSE rs.type = criterion.type)

\* domain.get_master_by_ip: the registered master with that address, or
\* False (None here).
GetMasterByIp(domain, host) ==
    LET found == SelectSeq(domain.masters, LAMBDA srv : srv = host)
    IN  IF found = <<>> THEN None ELSE Some(found[1])

\* -------------------------------------------------------------- responses
\* No response: __call__ has not returned one.
NoResponse == [rcode |-> "None", aa |-> FALSE, answer |-> <<>>]

\* No QUERY has been kept.
NoPrev == [request |-> NoRequest, response |-> NoResponse, raised |-> "none"]

\* dns.message.make_response: rcode NOERROR, no AA flag, empty answer.
MakeResponse(req) == [rcode |-> "NOERROR", aa |-> FALSE, answer |-> <<>>]

\* The python None that _convert_to_rrset returns for an empty rdata list.
NoneRRset == [name |-> "None", ttl |-> 0, rdclass |-> "None", rdtype |-> "None", rdata |-> <<>>]

Call(op, arg, ret) == [op |-> op, arg |-> arg, ret |-> ret]

\* What one run of a handler method gives: the response it returns or the
\* exception it lets through, and the collaborator calls it made.
Returns(resp, cs) == [response |-> resp, raised |-> "none", calls |-> cs]
Raises(exc, cs) == [response |-> NoResponse, raised |-> exc, calls |-> cs]

\* ------------------------------------------------ _handle_query_error
\* Mutant: the error response is flagged authoritative.
HandleQueryError_Authoritative(req, rcode) ==
    Returns([MakeResponse(req) EXCEPT !.rcode = rcode, !.aa = TRUE], <<>>)

HandleQueryError(req, rcode) ==
    Returns([MakeResponse(req) EXCEPT !.rcode = rcode], <<>>)

\* ------------------------------------- _domain_criterion_from_request
\* Mutant: the enforcement flag is not consulted.
TsigRequired_Never(tsigkey) == FALSE

\* tsigkey is None and CONF['service:mdns'].query_enforce_tsig
TsigRequired(tsigkey) == tsigkey = NoKey /\ query_enforce_tsig

\* Mutant: a request without a key is not scoped to the default pool.
DomainCriterionFromRequest_NoDefaultPool(req, criterion) ==
    LET tsigkey == req.tsigkey
    IN  IF TsigRequired(tsigkey)
        THEN [raised |-> "Forbidden", criterion |-> criterion]
        ELSE IF tsigkey = NoKey
        THEN [raised |-> "none", criterion |-> criterion]
        ELSE IF tsigkey.scope = "POOL"
        THEN [raised |-> "none",
              criterion |-> ("pool_id" :> tsigkey.resource_id) @@ criterion]
        ELSE IF tsigkey.scope = "ZONE"
        THEN [raised |-> "none",
              criterion |-> ("id" :> tsigkey.resource_id) @@ criterion]
        ELSE [raised |-> "NotImplementedError", criterion |-> criterion]

\* The criterion, or the exception raised instead of one.
DomainCriterionFromRequest(req, criterion) ==
    LET tsigkey == req.tsigkey
    IN  IF TsigRequired(tsigkey)
        THEN [raised |-> "Forbidden", criterion |-> criterion]
        ELSE IF tsigkey = NoKey
        THEN [raised |-> "none",
              criterion |-> ("pool_id" :> default_pool_id) @@ criterion]
        ELSE IF tsigkey.scope = "POOL"
        THEN [raised |-> "none",
              criterion |-> ("pool_id" :> tsigkey.resource_id) @@ criterion]
        ELSE IF tsigkey.scope = "ZONE"
        THEN [raised |-> "none",
              criterion |-> ("id" :> tsigkey.resource_id) @@ criterion]
        ELSE [raised |-> "NotImplementedError", criterion |-> criterion]

\* --------------------------------------------------- _convert_to_rrset
\* if recordset.ttl: a null ttl and a ttl of 0 are both false.
EffectiveTtl(domain, recordset) ==
    IF recordset.ttl # None /\ recordset.ttl[1] # 0
    THEN recordset.ttl[1]
    ELSE domain.ttl

\* The data of the records whose action is not DELETE, in stored order.
Rdata(recordset) ==
    LET live == SelectSeq(recordset.records, LAMBDA record : record.action # "DELETE")
    IN  [i \in 1..Len(live) |-> live[i].data]

ConvertToRRset(domain, recordset) ==
    LET ttl == EffectiveTtl(domain, recordset)
        rdata == Rdata(recordset)
    IN  IF rdata # <<>>
        THEN [name |-> recordset.name, ttl |-> ttl, rdclass |-> "IN",
              rdtype |-> recordset.type, rdata |-> rdata]
        ELSE NoneRRset

\* ---------------------------------------------------------- _handle_axfr
\* r_rrsets: every SOA record-set converted, then the non-SOA record-sets
\* whose conversion is not None, then every SOA record-set converted again.
AxfrAnswer(domain, soa_recordsets, other_recordsets) ==
    LET soa == [i \in 1..Len(soa_recordsets) |-> ConvertToRRset(domain, soa_recordsets[i])]
        converted == [i \in 1..Len(other_recordsets) |->
                         ConvertToRRset(domain, other_recordsets[i])]
        others == SelectSeq(converted, LAMBDA r_rrset : r_rrset # NoneRRset)
    IN  soa \o others \o soa

HandleAxfr(req) ==
    LET q_rrset == req.question[1]
        built == DomainCriterionFromRequest(req, [name |-> q_rrset.name])
    IN  IF built.raised = "Forbidden"
        THEN HandleQueryError(req, "REFUSED")
        ELSE IF built.raised # "none"
        THEN Raises(built.raised, <<>>)
        ELSE
        LET found == FindDomain(built.criterion)
            c1 == <<Call("find_domain", <<>>, <<>>)>>
        IN  IF found = None
            THEN Returns(HandleQueryError(req, "REFUSED").response, c1)
            ELSE
            LET domain == found[1]
                soa_recordsets == FindRecordsets([domain_id |-> domain.id, type |-> "SOA"])
                other_recordsets == FindRecordsets([domain_id |-> domain.id, type |-> "!SOA"])
                c3 == c1 \o <<Call("find_recordsets", <<"SOA">>, <<>>),
                              Call("find_recordsets", <<"!SOA">>, <<>>)>>
            IN  Returns([MakeResponse(req) EXCEPT
                            !.rcode = "NOERROR",
                            !.answer = AxfrAnswer(domain, soa_recordsets, other_recordsets),
                            !.aa = TRUE],
                        c3)

\* -------------------------------------------------- _handle_record_query
\* Mutant: the answer list is shared between calls and grows.
RecordQueryAnswer_Shared(domain, recordset) ==
    prev.response.answer \o <<ConvertToRRset(domain, recordset)>>

\* Mutant: the converted record-set is not put in the answer.
RecordQueryAnswer_Empty(domain, recordset) == <<>>

\* response.answer = [r_rrset]
RecordQueryAnswer(domain, recordset) == <<ConvertToRRset(domain, recordset)>>

HandleRecordQuery(req) ==
    LET q_rrset == req.question[1]
        resp == MakeResponse(req)
        recordset_found == FindRecordset([name |-> q_rrset.name, type |-> q_rrset.rdtype,
                                          domains_deleted |-> FALSE])
        c1 == <<Call("find_recordset", <<>>, <<>>)>>
    IN  IF recordset_found = None
        THEN Returns([resp EXCEPT !.rcode = "REFUSED"], c1)
        ELSE
        LET recordset == recordset_found[1]
            built == DomainCriterionFromRequest(req, [id |-> recordset.domain_id])
        IN  IF built.raised = "Forbidden"
            THEN Returns(HandleQueryError(req, "REFUSED").response, c1)
            ELSE IF built.raised # "none"
            THEN Raises(built.raised, c1)
            ELSE
            LET found == FindDomain(built.criterion)
                c2 == c1 \o <<Call("find_domain", <<>>, <<>>)>>
            IN  IF found = None
                THEN Returns(HandleQueryError(req, "REFUSED").response, c2)
                ELSE Returns([resp EXCEPT
                                 !.rcode = "NOERROR",
                                 !.answer = RecordQueryAnswer(found[1], recordset),
                                 !.aa = TRUE],
                             c2)

\* -------------------------------------------------------- _handle_notify
\* Mutant: the test of the master lookup is inverted.
NotMaster_Inverted(master_addr) == master_addr # None

\* Mutant: the sender is not checked against the masters.
NotMaster_Never(master_addr) == FALSE

\* if not master_addr
NotMaster(master_addr) == master_addr = None

\* Mutant: the serials are never taken to be equal.
SameSerial_Never(soa_serial, domain) == FALSE

\* soa_serial == domain.serial
SameSerial(soa_serial, domain) == soa_serial = domain.serial

\* Mutant: the sync is given all masters of the zone.
SyncThread_AllMasters(domain, master_addr) == <<domain.id>> \o domain.masters

\* self.tg.add_thread(self.domain_sync, context, domain, [master_addr])
SyncThread(domain, master_addr) == <<domain.id>> \o master_addr

\* Mutant: only an empty question section is rejected.
NotifyMalformed_EmptyOnly(req) == Len(req.question) = 0

\* len(request.question) != 1
NotifyMalformed(req) == Len(req.question) # 1

\* soa_answer is what the SOA query gives if the handler gets to make it.
HandleNotify(req, soa_answer) ==
    LET resp == MakeResponse(req)
    IN  IF NotifyMalformed(req)
        THEN Returns([resp EXCEPT !.rcode = "FORMERR"], <<>>)
        ELSE
        LET question == req.question[1]
            found == FindDomain([name |-> question.name, type |-> "SECONDARY",
                                 deleted |-> FALSE])
            c1 == <<Call("find_domain", <<>>, <<>>)>>
        IN  IF found = None
            THEN Returns([resp EXCEPT !.rcode = "NOTAUTH"], c1)
            ELSE
            LET domain == found[1]
                notify_addr == req.addr
                master_addr == GetMasterByIp(domain, notify_addr)
                c2 == c1 \o <<Call("get_master_by_ip", <<notify_addr>>, <<>>)>>
            IN  IF NotMaster(master_addr)
                THEN Returns([resp EXCEPT !.rcode = "REFUSED"], c2)
                ELSE
                LET c3 == c2 \o <<Call("resolver.query", <<notify_addr>>, soa_answer)>>
                IN  IF soa_answer = None
                    THEN Raises("DNSException", c3)
                    ELSE IF SameSerial(soa_answer[1], domain)
                    THEN Returns([resp EXCEPT !.aa = TRUE], c3)
                    ELSE Returns([resp EXCEPT !.aa = TRUE],
                                 c3 \o <<Call("add_thread",
                                              SyncThread(domain, master_addr), <<>>)>>)

\* ---------------------------------------------------------------- __call__
\* Mutant: the class of the question is not checked.
QueryMalformed_CountOnly(req) == Len(req.question) # 1

\* len(request.question) != 1 or request.question[0].rdclass != IN
QueryMalformed(req) ==
    IF Len(req.question) # 1 THEN TRUE ELSE req.question[1].rdclass # "IN"

\* q_rrset.rdtype in (AXFR, IXFR)
IsTransfer(req) == req.question[1].rdtype \in {"AXFR", "IXFR"}

\* Mutant: the sync is run inside the handler, no thread is added.
Threads_Inline(cs) == <<>>

\* The threads the handler added to the thread group.
Threads(cs) ==
    LET added == SelectSeq(cs, LAMBDA c : c.op = "add_thread")
    IN  [i \in 1..Len(added) |-> added[i].arg]

\* The handler is not busy with a request.
Idle == request = NoRequest

\* Mutant: a sync already pending for the zone and master is not added again.
Deliver_Coalescing(req, out) ==
    LET new == SelectSeq(Threads(out.calls),
                         LAMBDA t : \A j \in 1..Len(tg) : tg[j] # t)
    IN  /\ Len(tg) + Len(new) <= MaxTasks
        /\ request' = req
        /\ response' = out.response
        /\ raised' = out.raised
        /\ calls' = out.calls
        /\ tg' = tg \o new
        /\ UNCHANGED <<domains, recordsets, query_enforce_tsig, prev>>

\* __call__ returns (or raises) what the chosen method gave.
Deliver(req, out) ==
    /\ Len(tg) + Len(Threads(out.calls)) <= MaxTasks
    /\ request' = req
    /\ response' = out.response
    /\ raised' = out.raised
    /\ calls' = out.calls
    /\ tg' = tg \o Threads(out.calls)
    /\ UNCHANGED <<domains, recordsets, query_enforce_tsig, prev>>

CallQueryMalformed ==
    /\ Idle
    /\ \E req \in Requests :
           /\ req.opcode = "QUERY"
           /\ QueryMalformed(req)
           /\ Deliver(req, HandleQueryError(req, "REFUSED"))

CallAxfr ==
    /\ Idle
    /\ \E req \in Requests :
           /\ req.opcode = "QUERY"
           /\ ~QueryMalformed(req)
           /\ IsTransfer(req)
           /\ Deliver(req, HandleAxfr(req))

CallRecordQuery ==
    /\ Idle
    /\ \E req \in Requests :
           /\ req.opcode = "QUERY"
           /\ ~QueryMalformed(req)
           /\ ~IsTransfer(req)
           /\ Deliver(req, HandleRecordQuery(req))

CallNotify ==
    /\ Idle
    /\ \E req \in Requests, soa_answer \in SoaAnswers :
           /\ req.opcode = "NOTIFY"
           /\ Deliver(req, HandleNotify(req, soa_answer))

CallUnhandledOpcode ==
    /\ Idle
    /\ \E req \in Requests :
           /\ req.opcode \notin {"QUERY", "NOTIFY"}
           /\ Deliver(req, HandleQueryError(req, "REFUSED"))

\* The request and its response live only while the message is handled.
Respond ==
    /\ request # NoRequest
    /\ request' = NoRequest
    /\ response' = NoResponse
    /\ raised' = "none"
    /\ calls' = <<>>
    /\ UNCHANGED <<domains, recordsets, query_enforce_tsig, tg, prev>>

\* The same, and the QUERY and what it gave are kept for a later comparison.
Remember ==
    /\ request.opcode = "QUERY"
    /\ prev' = [request |-> request, response |-> response, raised |-> raised]
    /\ request' = NoRequest
    /\ response' = NoResponse
    /\ raised' = "none"
    /\ calls' = <<>>
    /\ UNCHANGED <<domains, recordsets, query_enforce_tsig, tg>>

\* A domain_sync thread of the thread group runs to its end.
DomainSync ==
    \E i \in 1..Len(tg) :
        /\ tg' = SubSeq(tg, 1, i - 1) \o SubSeq(tg, i + 1, Len(tg))
        /\ UNCHANGED <<domains, recordsets, query_enforce_tsig, request, response,
                       raised, calls, prev>>

Init ==
    /\ \E deleted \in BOOLEAN : domains = [z \in ZoneIds |->
                                    IF z = "z1" THEN Zone1 ELSE Zone2(deleted)]
    /\ \E a \in Zone1A, soa \in Zone1SOA, mx \in Zone1MX, z2 \in Zone2Recordsets :
           recordsets = a \o soa \o mx \o z2
    /\ query_enforce_tsig \in BOOLEAN
    /\ tg = <<>>
    /\ request = NoRequest
    /\ response = NoResponse
    /\ raised = "none"
    /\ calls = <<>>
    /\ prev = NoPrev

\* The storages of the repeated-request runs: every record-set present, with
\* live records, zone z2 not deleted.
InitRepeat ==
    /\ Init
    /\ ~domains["z2"].deleted
    /\ Len(recordsets) = 5
    /\ \A i \in 1..Len(recordsets) : recordsets[i].records = LiveRecord

Next ==
    \/ CallQueryMalformed
    \/ CallAxfr
    \/ CallRecordQuery
    \/ CallNotify
    \/ CallUnhandledOpcode
    \/ Respond
    \/ DomainSync

Spec == Init /\ [][Next]_vars

\* Runs in which a handled QUERY may be kept and compared with a later
\* handling of the same request.
NextRepeat ==
    \/ CallQueryMalformed
    \/ CallAxfr
    \/ CallRecordQuery
    \/ CallNotify
    \/ CallUnhandledOpcode
    \/ Respond
    \/ Remember
    \/ DomainSync

SpecRepeat == InitRepeat /\ [][NextRepeat]_vars

TypeOK ==
    /\ request \in Requests \cup {NoRequest}
    /\ response.rcode \in Rcodes \cup {"None"}
    /\ raised \in {"none", "NotImplementedError", "DNSException"}
    /\ Len(tg) <= MaxTasks

\* ------------------------------------------------------------ properties
Handled == request # NoRequest

Question == request.question[1]

\* A QUERY with exactly one question, of class IN.
SingleQuery ==
    /\ request.opcode = "QUERY"
    /\ Len(request.question) = 1
    /\ Question.rdclass = "IN"

TransferQuery == SingleQuery /\ Question.rdtype \in {"AXFR", "IXFR"}
RecordQuery == SingleQuery /\ Question.rdtype \notin {"AXFR", "IXFR"}
SingleNotify == request.opcode = "NOTIFY" /\ Len(request.question) = 1

\* The request's authorization admits zone z: the zone is not soft-deleted,
\* and it is in the default pool (no key, signing not enforced), in the
\* key's pool (POOL key) or is the key's zone (ZONE key).
Authorized(z) ==
    /\ ~domains[z].deleted
    /\ IF request.tsigkey = NoKey
       THEN ~query_enforce_tsig /\ domains[z].pool_id = default_pool_id
       ELSE IF request.tsigkey.scope = "POOL"
       THEN domains[z].pool_id = request.tsigkey.resource_id
       ELSE IF request.tsigkey.scope = "ZONE"
       THEN z = request.tsigkey.resource_id
       ELSE FALSE

\* The record-set has a record that is not marked DELETE.
HasLiveRecord(rs) == \E i \in 1..Len(rs.records) : rs.records[i].action # "DELETE"

\* The non-deleted SECONDARY zones with the name a NOTIFY asks about.
SecondaryZones(name) ==
    {z \in ZoneIds : /\ domains[z].name = name
                     /\ domains[z].type = "SECONDARY"
                     /\ ~domains[z].deleted}

IsMaster(z, addr) == \E i \in 1..Len(domains[z].masters) : domains[z].masters[i] = addr

Made(op) == \E i \in 1..Len(calls) : calls[i].op = op

\* The serial the sender's SOA answer carried is s.
RemoteSerial(s) ==
    \E i \in 1..Len(calls) : calls[i].op = "resolver.query" /\ calls[i].ret = Some(s)

\* C1: __call__ is total: every handled request has a response carrying an
\* rcode, and no exception leaves the handler.
C1_CallIsTotal ==
    Handled => raised = "none" /\ response.rcode \in Rcodes

\* C2: a single-question class-IN QUERY with a TSIG key whose scope is
\* neither POOL nor ZONE is answered REFUSED, and nothing is raised.
C2_UnsupportedScopeRefused ==
    (/\ SingleQuery
     /\ request.tsigkey # NoKey
     /\ request.tsigkey.scope \notin {"POOL", "ZONE"})
        => raised = "none" /\ response.rcode = "REFUSED"

\* C3: a request that is neither a NOTIFY nor a QUERY with exactly one
\* question of class IN is answered REFUSED by the dispatcher, with no
\* storage lookup, no remote SOA query and no re-sync scheduled.
C3_DispatcherRefuses ==
    (Handled /\ request.opcode # "NOTIFY" /\ ~SingleQuery)
        => /\ raised = "none"
           /\ response.rcode = "REFUSED"
           /\ calls = <<>>

C3_Witness ==
    /\ request.opcode = "QUERY"
    /\ Len(request.question) = 1
    /\ Question.rdclass = "CH"
    /\ Question.rdtype = "AXFR"
    /\ response.rcode = "REFUSED"

\* The non-SOA record-sets of zone z whose projection is not empty.
NProjected(z) ==
    Cardinality({i \in 1..Len(recordsets) :
                    /\ recordsets[i].domain_id = z
                    /\ recordsets[i].type # "SOA"
                    /\ HasLiveRecord(recordsets[i])})

\* C4: an AXFR or IXFR for an existing, authorized zone is answered NOERROR
\* with the AA flag, its answer has NProjected + 2 entries and the first and
\* the last entry are the zone's SOA record-set.
C4_AxfrFramedBySoa ==
    \A z \in ZoneIds :
        (TransferQuery /\ domains[z].name = Question.name /\ Authorized(z))
            => /\ raised = "none"
               /\ response.rcode = "NOERROR"
               /\ response.aa
               /\ Len(response.answer) = NProjected(z) + 2
               /\ response.answer[1].rdtype = "SOA"
               /\ response.answer[1].name = domains[z].name
               /\ response.answer[Len(response.answer)] = response.answer[1]

\* C5: a record QUERY whose name and type match a record-set of a
\* non-deleted, authorized zone is answered NOERROR with the AA flag and an
\* answer of exactly one entry, the projection of that record-set.
C5_RecordQueryAnswered ==
    \A i \in 1..Len(recordsets) :
        (/\ RecordQuery
         /\ recordsets[i].name = Question.name
         /\ recordsets[i].type = Question.rdtype
         /\ Authorized(recordsets[i].domain_id))
            => /\ raised = "none"
               /\ response.rcode = "NOERROR"
               /\ response.aa
               /\ Len(response.answer) = 1
               /\ response.answer[1] =
                      ConvertToRRset(domains[recordsets[i].domain_id], recordsets[i])

C5_Witness ==
    /\ RecordQuery
    /\ Question.name = "a."
    /\ Question.rdtype = "MX"
    /\ request.tsigkey = [scope |-> "ZONE", resource_id |-> "z1"]
    /\ response.rcode = "NOERROR"
    /\ Len(response.answer) = 1
    /\ Len(response.answer[1].rdata) = 2

\* C6: when query_enforce_tsig is set and the request has no TSIG key, every
\* QUERY is answered REFUSED with an empty answer and without the AA flag,
\* whatever storage holds.
C6_UnsignedQueryRefused ==
    (query_enforce_tsig /\ request.opcode = "QUERY" /\ request.tsigkey = NoKey)
        => /\ raised = "none"
           /\ response = [rcode |-> "REFUSED", aa |-> FALSE, answer |-> <<>>]

C6_Witness ==
    /\ query_enforce_tsig
    /\ RecordQuery
    /\ request.tsigkey = NoKey
    /\ \E i \in 1..Len(recordsets) :
           /\ recordsets[i].name = Question.name
           /\ recordsets[i].type = Question.rdtype
           /\ domains[recordsets[i].domain_id].pool_id = default_pool_id
           /\ HasLiveRecord(recordsets[i])
    /\ response.rcode = "REFUSED"

\* C7: a single-question NOTIFY for a known non-deleted SECONDARY zone from
\* an address that is not one of the zone's masters is answered REFUSED and
\* schedules no re-sync.
C7_NonMasterNotifyRefused ==
    \A z \in ZoneIds :
        (/\ SingleNotify
         /\ z \in SecondaryZones(Question.name)
         /\ ~IsMaster(z, request.addr))
            => /\ raised = "none"
               /\ response.rcode = "REFUSED"
               /\ ~Made("add_thread")
               /\ ~Made("resolver.query")

C7_Witness ==
    /\ SingleNotify
    /\ SecondaryZones(Question.name) # {}
    /\ request.addr = "x1"
    /\ response.rcode = "REFUSED"

\* C8: a single-question NOTIFY from a registered master of a known
\* SECONDARY zone, where the remote serial differs from the stored serial,
\* schedules exactly one re-sync of that zone with the notifying master as
\* its only master, and is answered NOERROR with the AA flag.
C8_ChangedSerialSchedulesOneSync ==
    \A z \in ZoneIds, s \in 1..MaxSerial :
        (/\ SingleNotify
         /\ z \in SecondaryZones(Question.name)
         /\ IsMaster(z, request.addr)
         /\ RemoteSerial(s)
         /\ s # domains[z].serial)
            => /\ raised = "none"
               /\ response.rcode = "NOERROR"
               /\ response.aa
               /\ Threads(calls) = << <<z, request.addr>> >>

C8_Witness ==
    /\ SingleNotify
    /\ request.addr = "m1"
    /\ \E s \in 1..MaxSerial : RemoteSerial(s) /\ s # domains["z2"].serial
    /\ Made("add_thread")
    /\ response.rcode = "NOERROR"

\* C9: the same NOTIFY where the remote serial equals the stored serial is
\* answered NOERROR with the AA flag and schedules no re-sync.
C9_SameSerialSchedulesNothing ==
    \A z \in ZoneIds :
        (/\ SingleNotify
         /\ z \in SecondaryZones(Question.name)
         /\ IsMaster(z, request.addr)
         /\ RemoteSerial(domains[z].serial))
            => /\ raised = "none"
               /\ response.rcode = "NOERROR"
               /\ response.aa
               /\ ~Made("add_thread")

C9_Witness ==
    /\ SingleNotify
    /\ request.addr = "m1"
    /\ RemoteSerial(domains["z2"].serial)
    /\ response.rcode = "NOERROR"
    /\ response.aa

\* C10: NOTIFY rejections follow a fixed precedence: a question count other
\* than one gives FORMERR before any storage lookup; otherwise no matching
\* non-deleted SECONDARY zone gives NOTAUTH; REFUSED is given only for a
\* known zone and a sender that is not its master.  FORMERR and NOTAUTH
\* schedule no re-sync.
C10_NotifyRejectionPrecedence ==
    request.opcode = "NOTIFY" =>
        /\ Len(request.question) # 1
               => raised = "none" /\ response.rcode = "FORMERR" /\ calls = <<>>
        /\ (Len(request.question) = 1 /\ SecondaryZones(Question.name) = {})
               => /\ raised = "none"
                  /\ response.rcode = "NOTAUTH"
                  /\ ~Made("add_thread")
                  /\ ~Made("resolver.query")
        /\ response.rcode = "REFUSED"
               => /\ Len(request.question) = 1
                  /\ \E z \in SecondaryZones(Question.name) : ~IsMaster(z, request.addr)

C10_Witness ==
    /\ request.opcode = "NOTIFY"
    /\ Len(request.question) = 2
    /\ request.addr = "m1"
    /\ SecondaryZones(Question.name) # {}
    /\ response.rcode = "FORMERR"

\* C11: the NOTIFY response does not wait on the re-sync: the step that
\* hands the domain_sync thread to the thread group is the step that returns
\* the NOERROR/AA response, with the thread still pending; and a thread that
\* ends afterwards (done or failed) changes nothing of the response.
C11_NotifyDoesNotWaitForSync ==
    [][/\ (Idle /\ request'.opcode = "NOTIFY" /\ Made("add_thread")')
              => /\ raised' = "none"
                 /\ response' = [rcode |-> "NOERROR", aa |-> TRUE, answer |-> <<>>]
                 /\ Len(tg') = Len(tg) + 1
                 /\ \E i \in 1..Len(calls') :
                        calls'[i].op = "add_thread" /\ tg'[Len(tg')] = calls'[i].arg
       /\ (~Idle /\ tg' # tg)
              => /\ request' = request
                 /\ response' = response
                 /\ raised' = raised]_vars

\* The NOTIFY is answered while the re-sync it scheduled has not run.
C11_Witness ==
    /\ request.opcode = "NOTIFY"
    /\ Made("add_thread")
    /\ tg = <<calls[Len(calls)].arg>>
    /\ response.rcode = "NOERROR"
    /\ response.aa

Asked(i) ==
    /\ recordsets[i].name = Question.name
    /\ recordsets[i].type = Question.rdtype
    /\ ~domains[recordsets[i].domain_id].deleted

\* C13: a record QUERY whose record-set projects to nothing (no record, or
\* every record marked DELETE) is answered REFUSED, and no record QUERY is
\* answered NOERROR without a usable answer.
C13_EmptyProjectionRefused ==
    /\ \A i \in 1..Len(recordsets) :
           (RecordQuery /\ Asked(i) /\ ~HasLiveRecord(recordsets[i]) /\ raised = "none")
               => response.rcode = "REFUSED"
    /\ (RecordQuery /\ response.rcode = "NOERROR")
           => \E k \in 1..Len(response.answer) : response.answer[k].rdata # <<>>

\* C14: the ttl of a projected record-set is the record-set's own ttl
\* whenever that is not null, 0 included, and the ttl of the owning zone
\* when it is null.
C14_OwnTtlUnlessNull ==
    \A k \in 1..Len(response.answer), i \in 1..Len(recordsets) :
        (/\ response.answer[k] # NoneRRset
         /\ recordsets[i].name = response.answer[k].name
         /\ recordsets[i].type = response.answer[k].rdtype
         /\ Authorized(recordsets[i].domain_id))
            => response.answer[k].ttl =
                   IF recordsets[i].ttl # None
                   THEN recordsets[i].ttl[1]
                   ELSE domains[recordsets[i].domain_id].ttl

\* The data of the records of rs that are not marked DELETE, in stored order.
LiveData(rs) ==
    LET F[n \in 0..Len(rs.records)] ==
            IF n = 0 THEN <<>>
            ELSE IF rs.records[n].action = "DELETE" THEN F[n - 1]
            ELSE Append(F[n - 1], rs.records[n].data)
    IN  F[Len(rs.records)]

\* C15: every entry of every answer section is a resource-record-set with
\* at least one value, its values being the data of the stored record-set's
\* records that are not marked DELETE, in stored order; there is no empty
\* or null entry.
C15_AnswerEntriesAreRealRRsets ==
    \A k \in 1..Len(response.answer) :
        /\ response.answer[k] # NoneRRset
        /\ response.answer[k].rdata # <<>>
        /\ \E i \in 1..Len(recordsets) :
               /\ recordsets[i].name = response.answer[k].name
               /\ recordsets[i].type = response.answer[k].rdtype
               /\ response.answer[k].rdata = LiveData(recordsets[i])

\* Zone z is the zone a QUERY asks about: the zone of that name for a
\* transfer, the zone of the record-set of that name and type otherwise.
Target(z) ==
    IF Question.rdtype \in {"AXFR", "IXFR"}
    THEN domains[z].name = Question.name
    ELSE \E i \in 1..Len(recordsets) :
             /\ recordsets[i].domain_id = z
             /\ recordsets[i].name = Question.name
             /\ recordsets[i].type = Question.rdtype

\* The pool a request without a key, or with a POOL key, is confined to.
ScopePool ==
    IF request.tsigkey = NoKey THEN default_pool_id ELSE request.tsigkey.resource_id

PoolScoped == request.tsigkey = NoKey \/ request.tsigkey.scope = "POOL"

\* C16: a QUERY or AXFR answered NOERROR without a key (signing not
\* enforced) serves a zone of the default pool, and with a POOL key a zone
\* of the key's pool; asked for a zone or record-set of another pool it
\* answers REFUSED.
C16_PoolScoping ==
    \A z \in ZoneIds :
        (SingleQuery /\ PoolScoped /\ Target(z))
            => /\ response.rcode = "NOERROR"
                   => /\ domains[z].pool_id = ScopePool
                      /\ request.tsigkey = NoKey => ~query_enforce_tsig
               /\ domains[z].pool_id # ScopePool
                   => raised = "none" /\ response.rcode = "REFUSED"

\* A request without a key for the record-set of a zone of pool p2.
C16_Witness ==
    /\ RecordQuery
    /\ request.tsigkey = NoKey
    /\ ~query_enforce_tsig
    /\ \E z \in ZoneIds :
           Target(z) /\ ~domains[z].deleted /\ domains[z].pool_id # default_pool_id
    /\ response.rcode = "REFUSED"

\* C17: a record QUERY with a ZONE key is answered NOERROR only when the
\* record-set belongs to the key's zone, the zone used for the projection is
\* the record-set's own zone, and a record-set of another zone is REFUSED.
C17_ZoneScoping ==
    \A i \in 1..Len(recordsets) :
        (RecordQuery /\ request.tsigkey.scope = "ZONE" /\ Asked(i))
            => /\ response.rcode = "NOERROR"
                   => /\ recordsets[i].domain_id = request.tsigkey.resource_id
                      /\ response.answer =
                             <<ConvertToRRset(domains[recordsets[i].domain_id],
                                              recordsets[i])>>
               /\ recordsets[i].domain_id # request.tsigkey.resource_id
                   => raised = "none" /\ response.rcode = "REFUSED"

C19_NotifyStepOrder ==
    \A i \in 1..Len(calls) :
        /\ calls[i].op = "resolver.query"
               => /\ SingleNotify
                  /\ calls[i].arg = <<request.addr>>
                  /\ \E z \in SecondaryZones(Question.name) : IsMaster(z, request.addr)
                  /\ i = 3
                  /\ calls[1].op = "find_domain"
                  /\ calls[2].op = "get_master_by_ip"
        /\ calls[i].op = "add_thread"
               => \E j \in 1..(i - 1) :
                      calls[j].op = "resolver.query" /\ calls[j].ret # None

C19_Witness ==
    /\ SingleNotify
    /\ Len(calls) = 4
    /\ calls[3].op = "resolver.query"
    /\ calls[3].arg = <<"m1">>
    /\ calls[4].op = "add_thread"

\* C20: a response whose rcode is not NOERROR has no AA flag and an empty
\* answer section.
C20_ErrorsCarryNoAnswer ==
    (Handled /\ raised = "none" /\ response.rcode # "NOERROR")
        => ~response.aa /\ response.answer = <<>>

\* A transfer refused for a zone that exists in another pool.
C20_Witness ==
    /\ TransferQuery
    /\ request.tsigkey = NoKey
    /\ \E z \in ZoneIds : domains[z].name = Question.name /\ ~domains[z].deleted
    /\ Made("find_domain")
    /\ response.rcode = "REFUSED"

====
